---- MODULE Spec2Model ----
(***************************************************************************)
(* State-machine model of SfPlayer (opensles/libopensles/                  *)
(* android_SfPlayer.cpp): the player object, the ALooper message queue it  *)
(* posts to, the client thread that calls its public methods, the audio    *)
(* sink (AudioTrack) and the data/decode source it reads from.             *)
(*                                                                         *)
(* Threads: "the looper" runs the message handlers one at a time, in queue *)
(* order; "the client" runs the public methods statement by statement, so  *)
(* every interleaving of a method with the handlers is a behaviour.        *)
(***************************************************************************)
EXTENDS Integers, Sequences, FiniteSets, TLC

(***************************************************************************)
(* Bounds of the model.                                                    *)
(***************************************************************************)
MaxCalls == 4        \* public methods the client calls in one behaviour
PlayCalls == 2       \* of which after the set-up, in SpecPlay and SpecRead
SeekPrefetchCalls == 3   \* of which after the set-up, in SpecSeekPrefetch
MaxQueue == 4        \* messages pending on the looper (ready + delayed)
NumFrames == 3       \* frames of the modelled stream
FrameUs == 10000500  \* timestamp distance of two frames, in microseconds

(***************************************************************************)
(* The modelled stream: 480000 bytes lasting 30 s, i.e. 128000 bits/s.     *)
(***************************************************************************)
StreamSizeBytes == 480 * 1000
StreamDurationUs == 30 * 1000 * 1000
NowStartUs == 100 * 1000 * 1000       \* ALooper::GetNowUs() at construction
\* ALooper::GetNowUs() counts from the start of the system: a player may be
\* built when the clock is still below the timestamps of its stream.
NowEarlyUs == 5 * 1000 * 1000
\* What the clock advances by between two steps, and for how long it is followed.
TickUs == 4 * 1000 * 1000
MaxClockUs == 12 * 1000 * 1000

\* The seek targets the client uses (milliseconds).
SeekTargets == {0, 15000}
\* What approxDataRemaining() may answer (bytes): 0.25 s, 10 s, 17 s, 25 s at 128 kbit/s.
DataRemainingChoices == {4000, 160000, 272000, 400000}

(***************************************************************************)
(* Constants of android_SfPlayer.h.                                        *)
(***************************************************************************)
kFlagPlaying == "Playing"
kFlagPreparing == "Preparing"
kFlagBuffering == "Buffering"
kFlagSeeking == "Seeking"
AllFlags == {kFlagPlaying, kFlagPreparing, kFlagBuffering, kFlagSeeking}

kStatusEmpty == 0
kStatusLow == 1
kStatusIntermediate == 2
kStatusEnough == 3
kStatusHigh == 4

DURATION_CACHED_HIGH_US == 20000000
DURATION_CACHED_MED_US == 15000000
DURATION_CACHED_LOW_US == 3000000
SIZE_CACHED_HIGH_BYTES == 320000
SIZE_CACHED_MED_BYTES == 240000
SIZE_CACHED_LOW_BYTES == 48000

kDataLocatorNone == "None"
kDataLocatorUri == "Uri"
kDataLocatorFd == "Fd"

\* mCacheFillNotifThreshold, set once by the constructor.
mCacheFillNotifThreshold == 100
\* Delay of a kWhatCheckCache message, in microseconds.
CheckCacheDelayUs == 100000

NoBuffer == -1        \* mDecodeBuffer == NULL
NoRead == -1          \* the client has not read the position yet
\* (2^32 - 1) / 1000: getPositionMsec() of a 64-bit position whose high word is
\* that of a frame timestamp and whose low word is still that of -1.
TornPositionMsec == 4294967

\* The URIs and the descriptor the client may hand to setDataSource.
HttpUri == "http://known"
HttpNoDurationUri == "http://noduration"
FileUri == "/sdcard/a.mp3"
Uris == {HttpUri, HttpNoDurationUri, FileUri}

VARIABLES
    mAudioTrack,             \* TRUE iff a sink is bound (mAudioTrack != NULL)
    mFlags,                  \* the bit set mFlags
    mBitrate,
    mTimeDelta,
    mDurationUsec,
    mCacheStatus,
    mSeekTimeMsec,
    mLastDecodedPositionUs,
    mCacheFill,
    mLastNotifiedCacheFill,
    mDataLocatorType,
    mDataLocator,            \* the URI held, "fd", or "NULL"
    mDecodeBuffer,           \* timestamp of the frame held, or NoBuffer
    mDataSource,             \* "NULL", "cached" (NuCachedSource2) or "file"
    mAudioSource,            \* "NULL", "started" or "stopped"
    looper,                  \* "new", "running" or "stopped"
    looperPc,                \* "idle", or the statement a handler is at
    queue,                   \* messages due, in delivery order
    timers,                  \* delayed messages not yet due
    sink,                    \* last command the AudioTrack received
    srcNext,                 \* index of the frame the decoder returns next
    srcEos,                  \* the cache has fetched up to the end of the stream
    now,                     \* ALooper::GetNowUs()
    callerPc,                \* statement the client thread is at
    callerTmp,               \* register of the client thread
    calls,                   \* public methods called so far
    lastCall,                \* last transport method that took effect
    posRead,                 \* value the last getPositionMsec() returned
    last,                    \* what the last step did
    eosReported,             \* approxDataRemaining() has answered eos for this source
    aborted                  \* a CHECK failed or a null pointer was used

player == <<mAudioTrack, mFlags, mBitrate, mTimeDelta, mDurationUsec, mCacheStatus,
            mSeekTimeMsec, mLastDecodedPositionUs, mCacheFill, mLastNotifiedCacheFill,
            mDataLocatorType, mDataLocator, mDecodeBuffer, mDataSource, mAudioSource>>
sched == <<looper, looperPc, queue, timers>>
env == <<sink, srcNext, srcEos, now>>
client == <<callerPc, callerTmp, calls, lastCall, posRead>>
vars == <<player, sched, env, client, last, eosReported, aborted>>

(***************************************************************************)
(* Arithmetic helpers.                                                     *)
(***************************************************************************)
Abs(x) == IF x < 0 THEN -x ELSE x

\* <<q, r>> with a * m = q * b + r and 0 <= r < b, for a, m >= 0 and b > 0:
\* the 64-bit product a * m of the code, computed without leaving 32 bits.
RECURSIVE MulDivQR(_, _, _)
MulDivQR(a, m, b) ==
    IF m = 0 THEN <<0, 0>>
    ELSE CHOOSE qr \in { <<2 * h[1] + (m % 2) * (a \div b)
                            + ((2 * h[2] + (m % 2) * (a % b)) \div b),
                           (2 * h[2] + (m % 2) * (a % b)) % b>>
                         : h \in {MulDivQR(a, m \div 2, b)} } : TRUE

\* a * m / b in 64-bit integer arithmetic (truncating; operands non-negative).
MulDiv(a, m, b) == CHOOSE q \in {MulDivQR(x, m, b)[1] : x \in {a}} : TRUE

\* (uint32_t) x of a 64-bit x. The positions of the model lie in 0 .. 2^31 - 1,
\* where x mod 2^32 is x; a value outside has no case here.
ToUint32(x) == CASE x >= 0 -> x

\* (int16_t) x of a double x with -32768 <= x <= 32767 (outside: undefined).
ToInt16(x) == CASE -32768 <= x /\ x <= 32767 -> x

(***************************************************************************)
(* Messages.                                                               *)
(***************************************************************************)
Msg(w, e, v) == [what |-> w, ev |-> e, val |-> v]
kWhatPrepare == Msg("Prepare", "none", 0)
kWhatDecode == Msg("Decode", "none", 0)
kWhatRender == Msg("Render", "none", 0)
kWhatCheckCache == Msg("CheckCache", "none", 0)
kWhatPlay == Msg("Play", "none", 0)
kWhatPause == Msg("Pause", "none", 0)
kWhatSeek(t) == Msg("Seek", "seek", t)
EVENT_PREFETCHSTATUSCHANGE == "prsc"
EVENT_PREFETCHFILLLEVELUPDATE == "pffu"
EVENT_ENDOFSTREAM == "eos"
kWhatNotif(e, v) == Msg("Notif", e, v)

Pending == Len(queue) + timers.CheckCache + timers.Render
\* Room for n more messages within the bound of the model.
Room(n) == Pending + n <= MaxQueue

(***************************************************************************)
(* Position reads (getPositionMsec, getPositionUsec), under mSeekLock.     *)
(***************************************************************************)
GetPositionMsec ==
    IF kFlagSeeking \in mFlags THEN ToUint32(mSeekTimeMsec)
    ELSE IF mLastDecodedPositionUs < 0 THEN 0
    ELSE ToUint32(mLastDecodedPositionUs \div 1000)

GetPositionUsec ==
    IF kFlagSeeking \in mFlags THEN mSeekTimeMsec * 1000
    ELSE IF mLastDecodedPositionUs < 0 THEN 0
    ELSE mLastDecodedPositionUs

(***************************************************************************)
(* The cache estimator, getCacheRemaining.                                 *)
(***************************************************************************)
\* Status against the duration thresholds (known duration).
CacheStatusByDuration(dataRemainingUs) ==
    IF dataRemainingUs > DURATION_CACHED_HIGH_US THEN kStatusHigh
    ELSE IF dataRemainingUs > DURATION_CACHED_MED_US THEN kStatusEnough
    ELSE IF dataRemainingUs < DURATION_CACHED_LOW_US THEN kStatusLow
    ELSE kStatusIntermediate

\* Status against the cache amount thresholds (unknown duration).
CacheStatusBySize(dataRemaining) ==
    IF dataRemaining > SIZE_CACHED_HIGH_BYTES THEN kStatusHigh
    ELSE IF dataRemaining > SIZE_CACHED_MED_BYTES THEN kStatusEnough
    ELSE IF dataRemaining < SIZE_CACHED_LOW_BYTES THEN kStatusLow
    ELSE kStatusIntermediate

\* (int16_t) (1000.0 * (double)(currentPositionUsec + dataRemainingUs) / mDurationUsec)
CacheFillKnownDuration(dataRemainingUs) ==
    ToInt16(MulDiv(ToUint32(GetPositionUsec) + dataRemainingUs, 1000, mDurationUsec))

\* FillNotifDue on the signed difference: a fill level that fell is not notified.
FillNotifDue_Signed(fill, lastNotified) == fill - lastNotified > mCacheFillNotifThreshold

\* abs(mCacheFill - mLastNotifiedCacheFill) > mCacheFillNotifThreshold
FillNotifDue(fill, lastNotified) == Abs(fill - lastNotified) > mCacheFillNotifThreshold

\* StatusNotifDue without the comparison: every estimation notifies the status.
StatusNotifDue_Always(oldStatus, newStatus) == TRUE

\* oldStatus != mCacheStatus
StatusNotifDue(oldStatus, newStatus) == oldStatus # newStatus

\* mCacheStatus as getCacheRemaining sets it.
EstimateStatus(dataRemaining, dataRemainingUs, eos) ==
    IF eos THEN kStatusHigh
    ELSE IF mDurationUsec > 0 THEN CacheStatusByDuration(dataRemainingUs)
    ELSE CacheStatusBySize(dataRemaining)

\* mCacheFill as getCacheRemaining sets it (left alone without a duration).
EstimateFill(dataRemainingUs, eos) ==
    IF eos THEN 1000
    ELSE IF mDurationUsec > 0 THEN CacheFillKnownDuration(dataRemainingUs)
    ELSE mCacheFill

\* The fields getCacheRemaining leaves and the notifications it posts, when
\* approxDataRemaining() answers dataRemaining and eos. Needs mBitrate >= 0.
GetCacheRemaining(dataRemaining, eos) ==
    LET dataRemainingUs == MulDiv(dataRemaining, 8000000, mBitrate)
        status == EstimateStatus(dataRemaining, dataRemainingUs, eos)
        fill == EstimateFill(dataRemainingUs, eos)
        statusNotif == IF StatusNotifDue(mCacheStatus, status)
                       THEN <<kWhatNotif(EVENT_PREFETCHSTATUSCHANGE, status)>> ELSE <<>>
        fillDue == FillNotifDue(fill, mLastNotifiedCacheFill)
        fillNotif == IF fillDue
                     THEN <<kWhatNotif(EVENT_PREFETCHFILLLEVELUPDATE, fill)>> ELSE <<>>
    IN [status |-> status, fill |-> fill,
        lastNotified |-> IF fillDue THEN fill ELSE mLastNotifiedCacheFill,
        notifs |-> statusNotif \o fillNotif]

\* What approxDataRemaining() may report as eos. mDataSource is cast to
\* NuCachedSource2 unchecked: on another source the answer is arbitrary.
EosAnswers == IF mDataSource = "cached" THEN {srcEos} ELSE BOOLEAN

(***************************************************************************)
(* The decode source (MediaSource::read).                                  *)
(***************************************************************************)
FrameTimeUs(i) == i * FrameUs
\* Index of the frame a read with seekTo(timeUs) returns: the last frame
\* starting at or before timeUs (NumFrames: past the end).
SeekIndex(timeUs) == IF timeUs \div FrameUs >= NumFrames THEN NumFrames
                     ELSE timeUs \div FrameUs

(***************************************************************************)
(* Initial state: SfPlayer::SfPlayer().                                    *)
(***************************************************************************)
Init ==
    /\ mAudioTrack = FALSE
    /\ mFlags = {}
    /\ mBitrate = -1
    /\ mTimeDelta = -1
    /\ mDurationUsec = -1
    /\ mCacheStatus = kStatusEmpty
    /\ mSeekTimeMsec = 0
    /\ mLastDecodedPositionUs = -1
    /\ mCacheFill = 0
    /\ mLastNotifiedCacheFill = 0
    /\ mDataLocatorType = kDataLocatorNone
    /\ mDataLocator = "NULL"
    /\ mDecodeBuffer = NoBuffer
    /\ mDataSource = "NULL"
    /\ mAudioSource = "NULL"
    /\ looper = "new"
    /\ looperPc = "idle"
    /\ queue = <<>>
    /\ timers = [CheckCache |-> 0, Render |-> 0]
    /\ sink = "none"
    /\ srcNext = 0
    /\ srcEos = FALSE
    /\ now = NowStartUs
    /\ callerPc = "idle"
    /\ callerTmp = {}
    /\ calls = 0
    /\ lastCall = "none"
    /\ posRead = NoRead
    /\ last = "init"
    /\ eosReported = FALSE
    /\ aborted = FALSE

(***************************************************************************)
(* The looper thread: onMessageReceived and the handlers.                  *)
(***************************************************************************)
\* The looper delivers the message at the head of the queue to handler w.
Dispatch(w) ==
    /\ looper = "running"
    /\ looperPc = "idle"
    /\ ~aborted
    /\ queue # <<>>
    /\ Head(queue).what = w

\* A CHECK fails or a null pointer is used inside a handler: the process dies.
HandlerAbort ==
    /\ aborted' = TRUE
    /\ last' = "abort"
    /\ queue' = Tail(queue)
    /\ UNCHANGED <<player, looper, looperPc, timers, env, client, eosReported>>

\* A delayed message becomes due: it is queued behind the messages due before it.
TimerDue ==
    /\ looper = "running"
    /\ ~aborted
    /\ \E k \in {"CheckCache", "Render"} :
          /\ timers[k] > 0
          /\ timers' = [timers EXCEPT ![k] = @ - 1]
          /\ queue' = Append(queue, Msg(k, "none", 0))
    /\ last' = "timer"
    /\ UNCHANGED <<player, looper, looperPc, env, client, eosReported, aborted>>

OnPlay ==
    /\ Dispatch("Play")
    /\ mFlags' = mFlags \cup {kFlagPlaying}
    /\ queue' = Tail(queue)
    /\ last' = "onPlay"
    /\ UNCHANGED <<mAudioTrack, mBitrate, mTimeDelta, mDurationUsec, mCacheStatus,
                   mSeekTimeMsec, mLastDecodedPositionUs, mCacheFill,
                   mLastNotifiedCacheFill, mDataLocatorType, mDataLocator,
                   mDecodeBuffer, mDataSource, mAudioSource,
                   looper, looperPc, timers, env, client, eosReported, aborted>>

OnPause ==
    /\ Dispatch("Pause")
    /\ mFlags' = mFlags \ {kFlagPlaying}
    /\ queue' = Tail(queue)
    /\ last' = "onPause"
    /\ UNCHANGED <<mAudioTrack, mBitrate, mTimeDelta, mDurationUsec, mCacheStatus,
                   mSeekTimeMsec, mLastDecodedPositionUs, mCacheFill,
                   mLastNotifiedCacheFill, mDataLocatorType, mDataLocator,
                   mDecodeBuffer, mDataSource, mAudioSource,
                   looper, looperPc, timers, env, client, eosReported, aborted>>

OnSeek ==
    /\ Dispatch("Seek")
    /\ mFlags' = mFlags \cup {kFlagSeeking}
    /\ mSeekTimeMsec' = Head(queue).val
    /\ mTimeDelta' = -1
    /\ mLastDecodedPositionUs' = -1
    /\ queue' = Tail(queue)
    /\ last' = "onSeek"
    /\ UNCHANGED <<mAudioTrack, mBitrate, mDurationUsec, mCacheStatus, mCacheFill,
                   mLastNotifiedCacheFill, mDataLocatorType, mDataLocator,
                   mDecodeBuffer, mDataSource, mAudioSource,
                   looper, looperPc, timers, env, client, eosReported, aborted>>

\* onNotify: the client's callback is called (or nothing, without a callback).
OnNotify ==
    /\ Dispatch("Notif")
    /\ queue' = Tail(queue)
    /\ last' = "onNotify"
    /\ UNCHANGED <<player, looper, looperPc, timers, env, client, eosReported, aborted>>

\* ExitBuffering without its third case: Preparing does not lower the bar.
ExitBuffering_HighOnly(eos, status) ==
    \/ eos
    \/ status = kStatusHigh

\* eos || status == kStatusHigh || ((mFlags & kFlagPreparing) && status >= kStatusEnough)
ExitBuffering(eos, status) ==
    \/ eos
    \/ status = kStatusHigh
    \/ (kFlagPreparing \in mFlags /\ status >= kStatusEnough)

OnCheckCache ==
    /\ Dispatch("CheckCache")
    /\ \/ /\ (mDataSource # "cached" \/ mBitrate < 0)
          /\ HandlerAbort
       \/ /\ mDataSource # "NULL"
          /\ mBitrate >= 0
          /\ \E dataRemaining \in DataRemainingChoices, eos \in EosAnswers :
                \E est \in {GetCacheRemaining(dataRemaining, eos)} :
                /\ Room(Len(est.notifs))
                /\ mCacheStatus' = est.status
                /\ mCacheFill' = est.fill
                /\ mLastNotifiedCacheFill' = est.lastNotified
                /\ eosReported' = (eosReported \/ eos)
                /\ IF ExitBuffering(eos, est.status)
                   THEN /\ sink' = IF kFlagPlaying \in mFlags THEN "start" ELSE sink
                        /\ mFlags' = mFlags \ {kFlagBuffering, kFlagPreparing}
                        /\ mTimeDelta' = -1
                        /\ queue' = Tail(queue) \o est.notifs \o
                                    (IF kFlagPlaying \in mFlags THEN <<kWhatDecode>> ELSE <<>>)
                        /\ timers' = timers
                        /\ last' = "checkCacheExit"
                   ELSE /\ timers' = [timers EXCEPT !.CheckCache = @ + 1]
                        /\ queue' = Tail(queue) \o est.notifs
                        /\ last' = "checkCachePoll"
                        /\ UNCHANGED <<sink, mFlags, mTimeDelta>>
          /\ UNCHANGED <<mAudioTrack, mBitrate, mDurationUsec, mSeekTimeMsec,
                         mLastDecodedPositionUs, mDataLocatorType, mDataLocator,
                         mDecodeBuffer, mDataSource, mAudioSource,
                         looper, looperPc, srcNext, srcEos, now, client, aborted>>

\* What getCacheRemaining leaves when it is not called.
NoEstimate == [status |-> mCacheStatus, fill |-> mCacheFill,
               lastNotified |-> mLastNotifiedCacheFill, notifs |-> <<>>]

\* DecodeRebuffer without line 427: no CheckCache message is posted.
DecodeRebuffer_NoCheckCache(est) ==
    /\ Room(Len(est.notifs))
    /\ sink' = IF kFlagPlaying \in mFlags THEN "pause" ELSE sink
    /\ mFlags' = mFlags \cup {kFlagBuffering}
    /\ timers' = timers
    /\ queue' = Tail(queue) \o est.notifs
    /\ last' = "decodeRebuffer"
    /\ UNCHANGED <<mLastDecodedPositionUs, mDecodeBuffer, looperPc, srcNext, srcEos>>

\* The "buffering more" branch of onDecode.
DecodeRebuffer(est) ==
    /\ Room(Len(est.notifs))
    /\ sink' = IF kFlagPlaying \in mFlags THEN "pause" ELSE sink
    /\ mFlags' = mFlags \cup {kFlagBuffering}
    /\ timers' = [timers EXCEPT !.CheckCache = @ + 1]
    /\ queue' = Tail(queue) \o est.notifs
    /\ last' = "decodeRebuffer"
    /\ UNCHANGED <<mLastDecodedPositionUs, mDecodeBuffer, looperPc, srcNext, srcEos>>

\* What MediaSource::read may return for the frame of index i.
ReadResults(i) == IF i < NumFrames THEN {"OK", "ERROR_IO"}
                  ELSE {"ERROR_END_OF_STREAM", "ERROR_IO"}

\* onDecode from the test of the flags on, up to the return of read().
DecodeRead(est) ==
    IF mFlags \cap {kFlagPlaying, kFlagBuffering, kFlagPreparing} = {}
    THEN /\ Room(Len(est.notifs) - 1)
         /\ queue' = Tail(queue) \o est.notifs
         /\ last' = "decodeIdle"
         /\ UNCHANGED <<sink, mFlags, timers, mLastDecodedPositionUs, mDecodeBuffer,
                        looperPc, srcNext, srcEos>>
    ELSE LET seeking == kFlagSeeking \in mFlags
             i == IF seeking THEN SeekIndex(mSeekTimeMsec * 1000) ELSE srcNext
         IN \E err \in ReadResults(i) :
            /\ Room(Len(est.notifs))
            \* a read that repositions the source may leave the cached range
            /\ srcEos' \in (IF seeking /\ mDataSource = "cached" THEN {srcEos, FALSE}
                            ELSE {srcEos})
            /\ CASE err = "OK" ->
                      /\ mDecodeBuffer' = FrameTimeUs(i)
                      /\ srcNext' = i + 1
                      /\ looperPc' = "decodeStore"
                      /\ queue' = Tail(queue) \o est.notifs
                      /\ last' = "decodeRead"
                 [] err = "ERROR_END_OF_STREAM" ->
                      /\ mDecodeBuffer' = NoBuffer
                      /\ srcNext' = NumFrames
                      /\ looperPc' = looperPc
                      /\ queue' = Tail(queue) \o est.notifs \o
                                  (IF kFlagPlaying \in mFlags
                                   THEN <<kWhatNotif(EVENT_ENDOFSTREAM, 1)>> ELSE <<>>)
                      /\ last' = "decodeEos"
                 [] err = "ERROR_IO" ->
                      /\ mDecodeBuffer' = NoBuffer
                      /\ srcNext' = srcNext
                      /\ looperPc' = looperPc
                      /\ queue' = Tail(queue) \o est.notifs
                      /\ last' = "decodeError"
            /\ UNCHANGED <<sink, mFlags, timers, mLastDecodedPositionUs>>

\* onDecode up to the return of read(): lines 415-451.
OnDecode ==
    /\ Dispatch("Decode")
    /\ \/ /\ (mDataSource = "NULL" \/ (mDataSource = "cached" /\ mBitrate < 0))
          /\ HandlerAbort
       \/ /\ mDataSource = "cached"
          /\ mBitrate >= 0
          /\ \E dataRemaining \in DataRemainingChoices :
                \E est \in {GetCacheRemaining(dataRemaining, srcEos)} :
                /\ mCacheStatus' = est.status
                /\ mCacheFill' = est.fill
                /\ mLastNotifiedCacheFill' = est.lastNotified
                /\ eosReported' = (eosReported \/ srcEos)
                /\ IF est.status = kStatusLow /\ ~srcEos
                   THEN DecodeRebuffer(est)
                   ELSE DecodeRead(est)
          /\ UNCHANGED <<mAudioTrack, mBitrate, mTimeDelta, mDurationUsec, mSeekTimeMsec,
                         mDataLocatorType, mDataLocator, mDataSource, mAudioSource,
                         looper, now, client, aborted>>
       \/ /\ mDataSource = "file"
          /\ DecodeRead(NoEstimate)
          /\ UNCHANGED <<mAudioTrack, mBitrate, mTimeDelta, mDurationUsec, mSeekTimeMsec,
                         mCacheStatus, mCacheFill, mLastNotifiedCacheFill,
                         mDataLocatorType, mDataLocator, mDataSource, mAudioSource,
                         looper, now, client, eosReported, aborted>>

\* OnDecodeStore without lines 473-478: Seeking stays set after the frame.
OnDecodeStore_KeepSeeking ==
    /\ looper = "running"
    /\ looperPc = "decodeStore"
    /\ ~aborted
    /\ mLastDecodedPositionUs' = mDecodeBuffer
    /\ mTimeDelta' = IF mTimeDelta < 0 THEN now - mDecodeBuffer ELSE mTimeDelta
    /\ timers' = [timers EXCEPT !.Render = @ + 1]
    /\ looperPc' = "idle"
    /\ last' = "decodeOk"
    /\ UNCHANGED <<mAudioTrack, mFlags, mBitrate, mDurationUsec, mCacheStatus, mSeekTimeMsec,
                   mCacheFill, mLastNotifiedCacheFill, mDataLocatorType, mDataLocator,
                   mDecodeBuffer, mDataSource, mAudioSource,
                   looper, queue, env, client, eosReported, aborted>>

\* onDecode after a successful read(): the timestamp of the frame is stored
\* (line 452), Seeking is cleared under mSeekLock, the render is scheduled.
OnDecodeStore ==
    /\ looper = "running"
    /\ looperPc = "decodeStore"
    /\ ~aborted
    /\ mLastDecodedPositionUs' = mDecodeBuffer
    /\ mFlags' = mFlags \ {kFlagSeeking}
    /\ mTimeDelta' = IF mTimeDelta < 0 THEN now - mDecodeBuffer ELSE mTimeDelta
    /\ timers' = [timers EXCEPT !.Render = @ + 1]
    /\ looperPc' = "idle"
    /\ last' = "decodeOk"
    /\ UNCHANGED <<mAudioTrack, mBitrate, mDurationUsec, mCacheStatus, mSeekTimeMsec,
                   mCacheFill, mLastNotifiedCacheFill, mDataLocatorType, mDataLocator,
                   mDecodeBuffer, mDataSource, mAudioSource,
                   looper, queue, env, client, eosReported, aborted>>

OnRender ==
    /\ Dispatch("Render")
    /\ IF mDecodeBuffer = NoBuffer
       THEN /\ queue' = Tail(queue)
            /\ last' = "renderNothing"
       ELSE IF kFlagPlaying \in mFlags
       THEN /\ queue' = Append(Tail(queue), kWhatDecode)
            /\ last' = "renderWrite"
       ELSE /\ queue' = Tail(queue)
            /\ last' = "renderDrop"
    /\ mDecodeBuffer' = NoBuffer
    /\ UNCHANGED <<mAudioTrack, mFlags, mBitrate, mTimeDelta, mDurationUsec, mCacheStatus,
                   mSeekTimeMsec, mLastDecodedPositionUs, mCacheFill,
                   mLastNotifiedCacheFill, mDataLocatorType, mDataLocator,
                   mDataSource, mAudioSource,
                   looper, looperPc, timers, env, client, eosReported, aborted>>

(***************************************************************************)
(* onPrepare, run by the looper (prepare_async) or by the caller of        *)
(* prepare_sync.                                                           *)
(***************************************************************************)
\* The source onPrepare opens for the locator: NuCachedSource2 over http,
\* a file source otherwise.
SourceOfLocator == IF mDataLocatorType = kDataLocatorUri /\ mDataLocator \in {HttpUri, HttpNoDurationUri}
                   THEN "cached" ELSE "file"
\* getSize() and kKeyDuration are both there.
DurationKnown == ~(mDataLocatorType = kDataLocatorUri /\ mDataLocator = HttpNoDurationUri)

\* Where onPrepare can leave: with an error before the size and duration are
\* read, with an error after, or with SFPLAYER_SUCCESS.
PrepareOutcomes == {"ERROR_SOURCE", "ERROR_DECODER", "SFPLAYER_SUCCESS"}

\* wantPrefetch() of the source just opened
WantPrefetchOf(source) == source = "cached"

\* onPrepare with q the queue its notifications are posted to; sync is TRUE
\* when it runs on the thread calling prepare_sync, FALSE on the looper.
OnPrepare(q, outcome, sync) ==
    IF mDataLocatorType = kDataLocatorNone \/ outcome = "ERROR_SOURCE"
    THEN /\ queue' = q
         /\ last' = IF sync THEN "prepareSyncFailed" ELSE "onPrepareFailed"
         /\ UNCHANGED <<mBitrate, mDurationUsec, mDataSource, mAudioSource, mCacheStatus,
                        mCacheFill, mLastNotifiedCacheFill, srcNext, srcEos, eosReported>>
    ELSE /\ mBitrate' = IF DurationKnown
                        THEN MulDiv(StreamSizeBytes, 8000000, StreamDurationUs) ELSE -1
         /\ mDurationUsec' = IF DurationKnown THEN StreamDurationUs ELSE -1
         /\ IF outcome = "ERROR_DECODER"
            THEN /\ queue' = q
                 /\ last' = IF sync THEN "prepareSyncFailed" ELSE "onPrepareFailed"
                 /\ UNCHANGED <<mDataSource, mAudioSource, mCacheStatus, mCacheFill,
                                mLastNotifiedCacheFill, srcNext, srcEos, eosReported>>
            ELSE /\ mDataSource' = SourceOfLocator
                 /\ mAudioSource' = "started"
                 /\ srcNext' = 0
                 /\ srcEos' = FALSE
                 /\ eosReported' = FALSE
                 /\ last' = IF sync THEN "prepareSyncOk" ELSE "onPrepareOk"
                 /\ IF ~WantPrefetchOf(SourceOfLocator)
                    THEN /\ mCacheStatus' = kStatusHigh
                         /\ mCacheFill' = 1000
                         /\ mLastNotifiedCacheFill' = 1000
                         /\ queue' = q \o <<kWhatNotif(EVENT_PREFETCHSTATUSCHANGE, kStatusHigh),
                                            kWhatNotif(EVENT_PREFETCHFILLLEVELUPDATE, 1000)>>
                    ELSE /\ queue' = q
                         /\ UNCHANGED <<mCacheStatus, mCacheFill, mLastNotifiedCacheFill>>

OnPrepareMsg ==
    /\ Dispatch("Prepare")
    /\ Room(1)
    /\ \E outcome \in PrepareOutcomes : OnPrepare(Tail(queue), outcome, FALSE)
    /\ UNCHANGED <<mAudioTrack, mFlags, mTimeDelta, mSeekTimeMsec, mLastDecodedPositionUs,
                   mDataLocatorType, mDataLocator, mDecodeBuffer,
                   looper, looperPc, timers, sink, now, client, aborted>>

(***************************************************************************)
(* The client thread: the public methods, statement by statement.          *)
(***************************************************************************)
\* The client is between two calls and may make another one.
CanCall == callerPc = "idle" /\ calls < MaxCalls /\ ~aborted

ArmLooper ==
    /\ callerPc = "idle"
    /\ ~aborted
    /\ looper = "new"
    /\ looper' = "running"
    /\ last' = "armLooper"
    /\ UNCHANGED <<player, looperPc, queue, timers, env, client, eosReported, aborted>>

UseAudioTrack ==
    /\ CanCall
    /\ ~mAudioTrack
    /\ mAudioTrack' = TRUE
    /\ calls' = calls + 1
    /\ last' = "useAudioTrack"
    /\ UNCHANGED <<mFlags, mBitrate, mTimeDelta, mDurationUsec, mCacheStatus,
                   mSeekTimeMsec, mLastDecodedPositionUs, mCacheFill,
                   mLastNotifiedCacheFill, mDataLocatorType, mDataLocator,
                   mDecodeBuffer, mDataSource, mAudioSource,
                   sched, env, callerPc, callerTmp, lastCall, posRead, eosReported, aborted>>

\* mDataLocator after resetDataLocator(): a held URI is freed.
ResetDataLocator == IF mDataLocatorType = kDataLocatorUri THEN "NULL" ELSE mDataLocator

\* setDataSource(uri); ok is FALSE when malloc fails.
SetDataSourceUri(uri, ok) ==
    /\ CanCall
    /\ mDataLocatorType' = IF ok THEN kDataLocatorUri ELSE kDataLocatorNone
    /\ mDataLocator' = IF ok THEN uri ELSE ResetDataLocator
    /\ calls' = calls + 1
    /\ last' = IF ok THEN "setDataSource" ELSE "setDataSourceFailed"
    /\ UNCHANGED <<mAudioTrack, mFlags, mBitrate, mTimeDelta, mDurationUsec, mCacheStatus,
                   mSeekTimeMsec, mLastDecodedPositionUs, mCacheFill,
                   mLastNotifiedCacheFill, mDecodeBuffer, mDataSource, mAudioSource,
                   sched, env, callerPc, callerTmp, lastCall, posRead, eosReported, aborted>>

\* setDataSource(fd, offset, length); ok is FALSE when fstat fails or the
\* offset is beyond the file. mDataLocator.fdi.fd is written before the checks.
SetDataSourceFd(ok) ==
    /\ CanCall
    /\ mDataLocatorType' = IF ok THEN kDataLocatorFd ELSE kDataLocatorNone
    /\ mDataLocator' = "fd"
    /\ calls' = calls + 1
    /\ last' = IF ok THEN "setDataSource" ELSE "setDataSourceFailed"
    /\ UNCHANGED <<mAudioTrack, mFlags, mBitrate, mTimeDelta, mDurationUsec, mCacheStatus,
                   mSeekTimeMsec, mLastDecodedPositionUs, mCacheFill,
                   mLastNotifiedCacheFill, mDecodeBuffer, mDataSource, mAudioSource,
                   sched, env, callerPc, callerTmp, lastCall, posRead, eosReported, aborted>>

PrepareAsync ==
    /\ CanCall
    /\ Room(1)
    /\ queue' = Append(queue, kWhatPrepare)
    /\ calls' = calls + 1
    /\ last' = "prepare_async"
    /\ UNCHANGED <<player, looper, looperPc, timers, env, callerPc, callerTmp,
                   lastCall, posRead, eosReported, aborted>>

\* prepare_sync: onPrepare runs on the calling thread.
PrepareSync ==
    /\ CanCall
    /\ Room(2)
    /\ \E outcome \in PrepareOutcomes : OnPrepare(queue, outcome, TRUE)
    /\ calls' = calls + 1
    /\ UNCHANGED <<mAudioTrack, mFlags, mTimeDelta, mSeekTimeMsec, mLastDecodedPositionUs,
                   mDataLocatorType, mDataLocator, mDecodeBuffer,
                   looper, looperPc, timers, sink, now,
                   callerPc, callerTmp, lastCall, posRead, aborted>>

\* The fields of the player other than mFlags.
playerButFlags == <<mAudioTrack, mBitrate, mTimeDelta, mDurationUsec, mCacheStatus,
                    mSeekTimeMsec, mLastDecodedPositionUs, mCacheFill,
                    mLastNotifiedCacheFill, mDataLocatorType, mDataLocator,
                    mDecodeBuffer, mDataSource, mAudioSource>>

\* startPrefetch_async: wantPrefetch(), then the load of "mFlags |= kFlagPreparing".
StartPrefetch ==
    /\ CanCall
    /\ calls' = calls + 1
    /\ last' = "startPrefetch_async"
    /\ IF mDataSource = "NULL"
       THEN aborted' = TRUE /\ UNCHANGED <<callerPc, callerTmp>>
       ELSE /\ aborted' = aborted
            /\ IF mDataSource = "cached"
               THEN callerTmp' = mFlags /\ callerPc' = "prefetchStore1"
               ELSE UNCHANGED <<callerPc, callerTmp>>
    /\ UNCHANGED <<player, sched, env, lastCall, posRead, eosReported>>

\* The store of "mFlags |= kFlagPreparing".
PrefetchStore1 ==
    /\ callerPc = "prefetchStore1"
    /\ ~aborted
    /\ mFlags' = callerTmp \cup {kFlagPreparing}
    /\ callerPc' = "prefetchLoad2"
    /\ last' = "prefetchStore"
    /\ UNCHANGED <<playerButFlags, sched, env, callerTmp, calls, lastCall, posRead, eosReported, aborted>>

\* The load of "mFlags |= kFlagBuffering".
PrefetchLoad2 ==
    /\ callerPc = "prefetchLoad2"
    /\ ~aborted
    /\ callerTmp' = mFlags
    /\ callerPc' = "prefetchStore2"
    /\ last' = "prefetchLoad"
    /\ UNCHANGED <<player, sched, env, calls, lastCall, posRead, eosReported, aborted>>

\* The store of "mFlags |= kFlagBuffering".
PrefetchStore2 ==
    /\ callerPc = "prefetchStore2"
    /\ ~aborted
    /\ mFlags' = callerTmp \cup {kFlagBuffering}
    /\ callerPc' = "prefetchPost"
    /\ last' = "prefetchStore"
    /\ UNCHANGED <<playerButFlags, sched, env, callerTmp, calls, lastCall, posRead, eosReported, aborted>>

\* (new AMessage(kWhatCheckCache, id()))->post(100000)
PrefetchPost ==
    /\ callerPc = "prefetchPost"
    /\ ~aborted
    /\ Room(1)
    /\ timers' = [timers EXCEPT !.CheckCache = @ + 1]
    /\ callerPc' = "idle"
    /\ last' = "prefetchPost"
    /\ UNCHANGED <<player, looper, looperPc, queue, env, callerTmp, calls, lastCall,
                   posRead, eosReported, aborted>>

\* play(): without a sink nothing happens, else the sink is started.
Play ==
    /\ CanCall
    /\ calls' = calls + 1
    /\ last' = "play"
    /\ IF mAudioTrack
       THEN sink' = "start" /\ callerPc' = "playPostPlay" /\ lastCall' = "play"
       ELSE UNCHANGED <<sink, callerPc, lastCall>>
    /\ UNCHANGED <<player, sched, srcNext, srcEos, now, callerTmp, posRead, eosReported, aborted>>

PlayPostPlay ==
    /\ callerPc = "playPostPlay"
    /\ ~aborted
    /\ Room(1)
    /\ queue' = Append(queue, kWhatPlay)
    /\ callerPc' = "playPostDecode"
    /\ last' = "playPost"
    /\ UNCHANGED <<player, looper, looperPc, timers, env, callerTmp, calls, lastCall,
                   posRead, eosReported, aborted>>

PlayPostDecode ==
    /\ callerPc = "playPostDecode"
    /\ ~aborted
    /\ Room(1)
    /\ queue' = Append(queue, kWhatDecode)
    /\ callerPc' = "idle"
    /\ last' = "playPost"
    /\ UNCHANGED <<player, looper, looperPc, timers, env, callerTmp, calls, lastCall,
                   posRead, eosReported, aborted>>

\* stop(): without a sink nothing happens, else mAudioTrack->stop().
Stop ==
    /\ CanCall
    /\ calls' = calls + 1
    /\ last' = "stop"
    /\ IF mAudioTrack
       THEN sink' = "stop" /\ callerPc' = "stopPostPause" /\ lastCall' = "stop"
       ELSE UNCHANGED <<sink, callerPc, lastCall>>
    /\ UNCHANGED <<player, sched, srcNext, srcEos, now, callerTmp, posRead, eosReported, aborted>>

StopPostPause ==
    /\ callerPc = "stopPostPause"
    /\ ~aborted
    /\ Room(1)
    /\ queue' = Append(queue, kWhatPause)
    /\ callerPc' = "stopSeek"
    /\ last' = "stopPost"
    /\ UNCHANGED <<player, looper, looperPc, timers, env, callerTmp, calls, lastCall,
                   posRead, eosReported, aborted>>

\* seek(0) at the end of stop()
StopSeek ==
    /\ callerPc = "stopSeek"
    /\ ~aborted
    /\ Room(1)
    /\ queue' = Append(queue, kWhatSeek(0))
    /\ callerPc' = "idle"
    /\ last' = "stopSeek"
    /\ UNCHANGED <<player, looper, looperPc, timers, env, callerTmp, calls, lastCall,
                   posRead, eosReported, aborted>>

\* pause(): without a sink nothing happens, else kWhatPause is posted.
Pause ==
    /\ CanCall
    /\ calls' = calls + 1
    /\ last' = "pause"
    /\ IF mAudioTrack
       THEN /\ Room(1)
            /\ queue' = Append(queue, kWhatPause)
            /\ callerPc' = "pauseSink"
            /\ lastCall' = "pause"
       ELSE UNCHANGED <<queue, callerPc, lastCall>>
    /\ UNCHANGED <<player, looper, looperPc, timers, env, callerTmp, posRead, eosReported, aborted>>

\* mAudioTrack->pause() at the end of pause()
PauseSink ==
    /\ callerPc = "pauseSink"
    /\ ~aborted
    /\ sink' = "pause"
    /\ callerPc' = "idle"
    /\ last' = "pauseSink"
    /\ UNCHANGED <<player, sched, srcNext, srcEos, now, callerTmp, calls, lastCall,
                   posRead, eosReported, aborted>>

Seek(timeMsec) ==
    /\ CanCall
    /\ Room(1)
    /\ queue' = Append(queue, kWhatSeek(timeMsec))
    /\ calls' = calls + 1
    /\ lastCall' = "seek"
    /\ last' = "seek"
    /\ UNCHANGED <<player, looper, looperPc, timers, env, callerPc, callerTmp,
                   posRead, eosReported, aborted>>

\* What a 64-bit load of mLastDecodedPositionUs yields, in getPositionMsec()'s
\* terms, while onDecode stores the timestamp of the frame just read: the old
\* value, the new one, or one word of each (the store is not under mSeekLock
\* and is two 32-bit stores).
RacyPositionsMsec ==
    {GetPositionMsec, ToUint32(mDecodeBuffer \div 1000)}
    \cup (IF mLastDecodedPositionUs < 0 THEN {0, TornPositionMsec} ELSE {})

\* getPositionMsec() called by a client thread.
GetPositionMsecCall ==
    /\ calls < MaxCalls
    /\ ~aborted
    /\ callerPc \notin {"dtorRelease", "dtorStop", "dtorReset", "dead"}
    /\ posRead' \in (IF looperPc = "decodeStore" /\ kFlagSeeking \notin mFlags
                     THEN RacyPositionsMsec ELSE {GetPositionMsec})
    /\ calls' = calls + 1
    /\ last' = "getPositionMsec"
    /\ UNCHANGED <<player, sched, env, callerPc, callerTmp, lastCall, eosReported, aborted>>

(***************************************************************************)
(* SfPlayer::~SfPlayer().                                                  *)
(***************************************************************************)
\* mRenderLooper->stop() waits for the handler that is running; the pending
\* messages go with the looper.
DtorStopLooper ==
    /\ callerPc = "idle"
    /\ ~aborted
    /\ looperPc = "idle"
    /\ looper' = "stopped"
    /\ queue' = <<>>
    /\ timers' = [CheckCache |-> 0, Render |-> 0]
    /\ callerPc' = "dtorRelease"
    /\ last' = "dtorStopLooper"
    /\ UNCHANGED <<player, looperPc, env, callerTmp, calls, lastCall, posRead, eosReported, aborted>>

\* DtorRelease without the release of the buffer: the source is stopped with
\* the frame still held.
DtorRelease_NoRelease ==
    /\ callerPc = "dtorRelease"
    /\ callerPc' = IF mAudioSource # "NULL" THEN "dtorStop" ELSE "dtorReset"
    /\ last' = "dtorRelease"
    /\ UNCHANGED <<player, sched, env, callerTmp, calls, lastCall, posRead,
                   eosReported, aborted>>

\* The decode buffer is released under mDecodeBufferLock, if there is a source.
DtorRelease ==
    /\ callerPc = "dtorRelease"
    /\ IF mAudioSource # "NULL"
       THEN mDecodeBuffer' = NoBuffer /\ callerPc' = "dtorStop"
       ELSE mDecodeBuffer' = mDecodeBuffer /\ callerPc' = "dtorReset"
    /\ last' = IF mDecodeBuffer # NoBuffer /\ mAudioSource # "NULL"
               THEN "dtorReleaseFrame" ELSE "dtorRelease"
    /\ UNCHANGED <<mAudioTrack, mFlags, mBitrate, mTimeDelta, mDurationUsec, mCacheStatus,
                   mSeekTimeMsec, mLastDecodedPositionUs, mCacheFill,
                   mLastNotifiedCacheFill, mDataLocatorType, mDataLocator,
                   mDataSource, mAudioSource,
                   sched, env, callerTmp, calls, lastCall, posRead, eosReported, aborted>>

\* mAudioSource->stop()
DtorStopSource ==
    /\ callerPc = "dtorStop"
    /\ mAudioSource' = "stopped"
    /\ callerPc' = "dtorReset"
    /\ last' = "dtorStopSource"
    /\ UNCHANGED <<mAudioTrack, mFlags, mBitrate, mTimeDelta, mDurationUsec, mCacheStatus,
                   mSeekTimeMsec, mLastDecodedPositionUs, mCacheFill,
                   mLastNotifiedCacheFill, mDataLocatorType, mDataLocator,
                   mDecodeBuffer, mDataSource,
                   sched, env, callerTmp, calls, lastCall, posRead, eosReported, aborted>>

\* resetDataLocator()
DtorReset ==
    /\ callerPc = "dtorReset"
    /\ mDataLocatorType' = kDataLocatorNone
    /\ mDataLocator' = ResetDataLocator
    /\ callerPc' = "dead"
    /\ last' = "dtorReset"
    /\ UNCHANGED <<mAudioTrack, mFlags, mBitrate, mTimeDelta, mDurationUsec, mCacheStatus,
                   mSeekTimeMsec, mLastDecodedPositionUs, mCacheFill,
                   mLastNotifiedCacheFill, mDecodeBuffer, mDataSource, mAudioSource,
                   sched, env, callerTmp, calls, lastCall, posRead, eosReported, aborted>>

(***************************************************************************)
(* The environment.                                                        *)
(***************************************************************************)
\* The cache of the source has fetched the stream up to its end.
SourceFetchedAll ==
    /\ mDataSource = "cached"
    /\ ~srcEos
    /\ ~aborted
    /\ callerPc # "dead"
    /\ srcEos' = TRUE
    /\ last' = "sourceFetchedAll"
    /\ UNCHANGED <<player, sched, sink, srcNext, now, client, eosReported, aborted>>

Looper ==
    \/ TimerDue
    \/ OnPrepareMsg
    \/ OnPlay
    \/ OnPause
    \/ OnSeek
    \/ OnDecode
    \/ OnDecodeStore
    \/ OnRender
    \/ OnCheckCache
    \/ OnNotify

Transport ==
    \/ Play \/ PlayPostPlay \/ PlayPostDecode
    \/ Stop \/ StopPostPause \/ StopSeek
    \/ Pause \/ PauseSink
    \/ \E t \in SeekTargets : Seek(t)

Prefetch ==
    \/ StartPrefetch \/ PrefetchStore1 \/ PrefetchLoad2 \/ PrefetchStore2 \/ PrefetchPost

Setup ==
    \/ ArmLooper
    \/ UseAudioTrack
    \/ \E u \in Uris, ok \in BOOLEAN : SetDataSourceUri(u, ok)
    \/ \E ok \in BOOLEAN : SetDataSourceFd(ok)
    \/ PrepareAsync
    \/ PrepareSync

Destructor ==
    \/ DtorStopLooper \/ DtorRelease \/ DtorStopSource \/ DtorReset

Next ==
    \/ Setup
    \/ Prefetch
    \/ Transport
    \/ GetPositionMsecCall
    \/ Looper
    \/ SourceFetchedAll
    \/ Destructor

Spec == Init /\ [][Next]_vars

(***************************************************************************)
(* A player set up for playback: useAudioTrack, armLooper, setDataSource   *)
(* and a successful prepare_sync have run (a state Spec reaches, see       *)
(* SetUpHttpNotReached), and the notifications of prepare were delivered.  *)
(***************************************************************************)
SetUpAt(uri, t) ==
    /\ mAudioTrack = TRUE
    /\ mFlags = {}
    /\ mBitrate = (IF uri = HttpNoDurationUri THEN -1
                   ELSE MulDiv(StreamSizeBytes, 8000000, StreamDurationUs))
    /\ mTimeDelta = -1
    /\ mDurationUsec = (IF uri = HttpNoDurationUri THEN -1 ELSE StreamDurationUs)
    /\ mCacheStatus = (IF uri = FileUri THEN kStatusHigh ELSE kStatusEmpty)
    /\ mSeekTimeMsec = 0
    /\ mLastDecodedPositionUs = -1
    /\ mCacheFill = (IF uri = FileUri THEN 1000 ELSE 0)
    /\ mLastNotifiedCacheFill = (IF uri = FileUri THEN 1000 ELSE 0)
    /\ mDataLocatorType = kDataLocatorUri
    /\ mDataLocator = uri
    /\ mDecodeBuffer = NoBuffer
    /\ mDataSource = (IF uri = FileUri THEN "file" ELSE "cached")
    /\ mAudioSource = "started"
    /\ looper = "running"
    /\ looperPc = "idle"
    /\ queue = <<>>
    /\ timers = [CheckCache |-> 0, Render |-> 0]
    /\ sink = "none"
    /\ srcNext = 0
    /\ srcEos = FALSE
    /\ now = t
    /\ callerPc = "idle"
    /\ callerTmp = {}
    /\ aborted = FALSE

SetUp(uri) == SetUpAt(uri, NowStartUs)

InitSetUp ==
    /\ \E uri \in {HttpUri, FileUri} : SetUp(uri)
    /\ calls = MaxCalls - PlayCalls
    /\ lastCall = "none"
    /\ posRead = NoRead
    /\ last = "init"
    /\ eosReported = FALSE

LooperPlay ==
    \/ TimerDue
    \/ OnPlay
    \/ OnPause
    \/ OnSeek
    \/ OnDecode
    \/ OnDecodeStore
    \/ OnRender
    \/ OnCheckCache
    \/ OnNotify

NextPlay ==
    \/ Prefetch
    \/ Transport
    \/ LooperPlay
    \/ SourceFetchedAll

\* Playback of a prepared player: the transport methods, startPrefetch_async
\* and the handlers.
SpecPlay == InitSetUp /\ [][NextPlay]_vars

NextRead ==
    \/ NextPlay
    \/ GetPositionMsecCall

\* SpecPlay with a client that reads the position.
SpecRead == InitSetUp /\ [][NextRead]_vars

(***************************************************************************)
(* Pacing: playback of a prepared local source against a clock that runs.  *)
(***************************************************************************)
\* The clock advances (between two statements of any thread).
Tick ==
    /\ ~aborted
    /\ now - (IF now >= NowStartUs THEN NowStartUs ELSE NowEarlyUs) < MaxClockUs
    /\ now' = now + TickUs
    /\ last' = "tick"
    /\ UNCHANGED <<player, sched, sink, srcNext, srcEos, client, eosReported, aborted>>

InitPace ==
    /\ \E t \in {NowEarlyUs, NowStartUs} : SetUpAt(FileUri, t)
    /\ calls = MaxCalls - PlayCalls
    /\ lastCall = "none"
    /\ posRead = NoRead
    /\ last = "init"
    /\ eosReported = FALSE

\* The handlers a source that does not prefetch gives work to.
LooperPace ==
    \/ TimerDue
    \/ OnPlay
    \/ OnPause
    \/ OnSeek
    \/ OnDecode
    \/ OnDecodeStore
    \/ OnRender
    \/ OnNotify

NextPace ==
    \/ Transport
    \/ LooperPace
    \/ Tick

SpecPace == InitPace /\ [][NextPace]_vars

(***************************************************************************)
(* Seeking while prefetch is started: a prepared source that prefetches,   *)
(* and a client that calls seek, play and startPrefetch_async.             *)
(***************************************************************************)
InitSeekPrefetch ==
    /\ SetUp(HttpUri)
    /\ calls = MaxCalls - SeekPrefetchCalls
    /\ lastCall = "none"
    /\ posRead = NoRead
    /\ last = "init"
    /\ eosReported = FALSE

\* The client program: seek(15000); play(); startPrefetch_async().
ClientSeekPlayPrefetch ==
    \/ (lastCall = "none" /\ Seek(15000))
    \/ (lastCall = "seek" /\ Play)
    \/ PlayPostPlay \/ PlayPostDecode
    \/ (lastCall = "play" /\ StartPrefetch)
    \/ PrefetchStore1 \/ PrefetchLoad2 \/ PrefetchStore2 \/ PrefetchPost

LooperSeekPrefetch ==
    \/ TimerDue
    \/ OnPlay
    \/ OnSeek
    \/ OnDecode
    \/ OnDecodeStore
    \/ OnRender
    \/ OnCheckCache
    \/ OnNotify

NextSeekPrefetch ==
    \/ ClientSeekPlayPrefetch
    \/ LooperSeekPrefetch

SpecSeekPrefetch == InitSeekPrefetch /\ [][NextSeekPrefetch]_vars

(***************************************************************************)
(* Playback of the source that prefetches, with the scheduling the looper  *)
(* thread has: it handles the message at the head of its queue and         *)
(* delivers the delayed messages when they are due.                        *)
(***************************************************************************)
InitRebuffer ==
    /\ SetUp(HttpUri)
    /\ calls = MaxCalls - PlayCalls
    /\ lastCall = "none"
    /\ posRead = NoRead
    /\ last = "init"
    /\ eosReported = FALSE

\* The client program: play(); pause().
ClientPlayThenPause ==
    \/ (lastCall = "none" /\ Play)
    \/ PlayPostPlay \/ PlayPostDecode
    \/ (lastCall = "play" /\ Pause)
    \/ PauseSink

LooperRebuffer ==
    \/ TimerDue
    \/ OnPlay
    \/ OnPause
    \/ OnDecode
    \/ OnDecodeStore
    \/ OnRender
    \/ OnCheckCache
    \/ OnNotify

NextRebuffer ==
    \/ ClientPlayThenPause
    \/ LooperRebuffer
    \/ SourceFetchedAll

SpecRebuffer ==
    /\ InitRebuffer
    /\ [][NextRebuffer]_vars
    /\ WF_vars(LooperRebuffer)

\* Spec reaches the set-up states SpecPlay starts from.
SetUpHttpNotReached == ~SetUp(HttpUri)
SetUpFileNotReached == ~SetUp(FileUri)

(***************************************************************************)
(* Properties.                                                             *)
(***************************************************************************)
InDestructor == callerPc \in {"dtorRelease", "dtorStop", "dtorReset", "dead"}

DecodeWithoutFrame == {"decodeError", "decodeEos", "decodeRebuffer", "decodeIdle"}

Quiescent ==
    /\ callerPc = "idle"
    /\ looperPc = "idle"
    /\ queue = <<>>
    /\ timers = [CheckCache |-> 0, Render |-> 0]
    /\ ~aborted

\* C2: once pause() has returned with a sink bound, no other transport method
\* (so no play()) was called after it and every queued task has run, Playing
\* is clear and the last command the sink received is a pause.
C2_PausedAfterPause ==
    (lastCall = "pause" /\ Quiescent) => (kFlagPlaying \notin mFlags /\ sink = "pause")

\* C3: once stop() has returned with a sink bound, no other transport method
\* was called after it and every queued task has run, the sink is halted (its last
\* command is a pause or a stop), Playing is clear, and while Seeking is set
\* the reported position is 0.
C3_StoppedAfterStop ==
    (lastCall = "stop" /\ Quiescent)
        => /\ kFlagPlaying \notin mFlags
           /\ sink \in {"pause", "stop"}
           /\ (kFlagSeeking \in mFlags => GetPositionMsec = 0)

(***************************************************************************)
(* Writers of the flags (C4).                                              *)
(***************************************************************************)
\* C4: no flag update is lost to a write from another thread: Playing, once
\* set by onPlay, is cleared only by the handler onPause.
C4_PlayingClearedOnlyByOnPause ==
    [][ (kFlagPlaying \in mFlags /\ kFlagPlaying \notin mFlags') => last' = "onPause" ]_vars

(***************************************************************************)
(* Position reads from another thread (C5).                                *)
(***************************************************************************)
\* C5: what getPositionMsec() returned is a seek target, the timestamp / 1000
\* of a frame of the stream, or 0.
C5_ReadIsTargetOrFrame ==
    posRead = NoRead
    \/ posRead \in SeekTargets \cup {0} \cup {FrameTimeUs(i) \div 1000 : i \in 0 .. NumFrames - 1}

(***************************************************************************)
(* Notifications of the cache estimator (C7, C8).                          *)
(***************************************************************************)
\* Number of notifications of event e in the queue q.
NotifCount(q, e) == Cardinality({i \in DOMAIN q : q[i].what = "Notif" /\ q[i].ev = e})

\* The step posts a notification of event e (a handler takes the message that
\* started it from the queue, which is never a notification, and onNotify
\* posts nothing).
NotifPosted(e) == NotifCount(queue', e) > NotifCount(queue, e)

\* The step is a successful onPrepare of a source that does not prefetch.
PrepareNoPrefetchStep ==
    /\ last' \in {"prepareSyncOk", "onPrepareOk"}
    /\ mDataSource' = "file"
    /\ queue' # queue

\* C7 as stated: at every step a fill-level notification is posted iff
\* |newFill - lastNotifiedFill| > threshold, then lastNotifiedFill = newFill,
\* and lastNotifiedFill is unchanged when none is posted.
C7_FillNotifiedIffOverThreshold ==
    [][ /\ NotifPosted(EVENT_PREFETCHFILLLEVELUPDATE)
              <=> (Abs(mCacheFill' - mLastNotifiedCacheFill) > mCacheFillNotifThreshold)
        /\ mLastNotifiedCacheFill' =
              IF NotifPosted(EVENT_PREFETCHFILLLEVELUPDATE) THEN mCacheFill'
              ELSE mLastNotifiedCacheFill
      ]_vars

\* C7 amended: the rule of C7 holds at every step but the successful prepare
\* of a source that does not prefetch, which always posts a fill-level
\* notification of 1000 and sets both the fill and the last notified fill to
\* 1000, whatever the last notified fill was.
C7_FillNotifiedIffOverThresholdButPrepare ==
    [][ IF PrepareNoPrefetchStep
        THEN /\ NotifPosted(EVENT_PREFETCHFILLLEVELUPDATE)
             /\ mCacheFill' = 1000
             /\ mLastNotifiedCacheFill' = 1000
        ELSE /\ NotifPosted(EVENT_PREFETCHFILLLEVELUPDATE)
                   <=> (Abs(mCacheFill' - mLastNotifiedCacheFill) > mCacheFillNotifThreshold)
             /\ mLastNotifiedCacheFill' =
                   IF NotifPosted(EVENT_PREFETCHFILLLEVELUPDATE) THEN mCacheFill'
                   ELSE mLastNotifiedCacheFill
      ]_vars

\* C7 witness: a cache check found the fill level more than the threshold
\* away from the last notified one, below it, and has posted it.
C7_Witness ==
    /\ last = "checkCachePoll"
    /\ queue # <<>>
    /\ queue[Len(queue)] = kWhatNotif(EVENT_PREFETCHFILLLEVELUPDATE, mCacheFill)
    /\ mLastNotifiedCacheFill = mCacheFill
    /\ mCacheFill < 300

\* C8 as stated: at every step a status notification is posted iff the
\* status the step leaves differs from the status held before it.
C8_StatusNotifiedIffChanged ==
    [][ NotifPosted(EVENT_PREFETCHSTATUSCHANGE) <=> (mCacheStatus' # mCacheStatus) ]_vars

\* C8 amended: the rule of C8 holds at every step but the successful prepare
\* of a source that does not prefetch, which always posts a status
\* notification of High, whatever the status was.
C8_StatusNotifiedIffChangedButPrepare ==
    [][ IF PrepareNoPrefetchStep
        THEN /\ NotifPosted(EVENT_PREFETCHSTATUSCHANGE)
             /\ mCacheStatus' = kStatusHigh
        ELSE NotifPosted(EVENT_PREFETCHSTATUSCHANGE) <=> (mCacheStatus' # mCacheStatus)
      ]_vars

\* C8 witness: a cache check has computed the status that was held before
\* (Intermediate, already notified and delivered) and has posted nothing.
C8_Witness ==
    /\ last = "checkCachePoll"
    /\ mCacheStatus = kStatusIntermediate
    /\ queue = <<>>
    /\ timers.CheckCache = 1

(***************************************************************************)
(* The fill level (C9, C10).                                               *)
(***************************************************************************)
\* C9: once an estimation of the current source has seen end-of-stream, the
\* fill level is 1000 and the status is High.
C9_FullOnceEosSeen ==
    eosReported => (mCacheFill = 1000 /\ mCacheStatus = kStatusHigh)

\* C10: the stored fill level, the last notified one and every fill level in
\* a pending notification lie in 0 .. 1000.
C10_FillInRange ==
    /\ mCacheFill \in 0 .. 1000
    /\ mLastNotifiedCacheFill \in 0 .. 1000
    /\ \A i \in DOMAIN queue :
          (queue[i].what = "Notif" /\ queue[i].ev = EVENT_PREFETCHFILLLEVELUPDATE)
              => queue[i].val \in 0 .. 1000

(***************************************************************************)
(* The estimator without a duration (C11).                                 *)
(***************************************************************************)
\* What a step that ran getCacheRemaining leaves in last.
EstimationSteps == {"checkCacheExit", "checkCachePoll", "decodeRebuffer", "decodeIdle",
                    "decodeRead", "decodeEos", "decodeError"}

\* The looper runs a handler that calls getCacheRemaining on a source that
\* prefetches: onCheckCache or onDecode takes its message from the queue.
EstimationStep ==
    /\ mDataSource = "cached"
    /\ (Dispatch("CheckCache") \/ Dispatch("Decode"))
    /\ queue' # queue
    /\ last' \in EstimationSteps \cup {"abort"}

\* C11: when the duration is unknown (mDurationUsec = mBitrate = -1) a cache
\* estimation completes, no assertion fails, and the status it leaves is the
\* one of the remaining-byte thresholds, or High at end-of-stream.
C11_EstimationWithoutDuration ==
    [][ (EstimationStep /\ mDurationUsec = -1 /\ mBitrate = -1)
          => /\ ~aborted'
             /\ mCacheStatus' \in {CacheStatusBySize(d) : d \in DataRemainingChoices}
                                  \cup {kStatusHigh}
      ]_vars

(***************************************************************************)
(* Failed prepare and failed setDataSource (C12, C13).                     *)
(***************************************************************************)
\* The step is an onPrepare that returns a failure code (by prepare_sync on
\* the caller's thread, or by the looper for prepare_async).
PrepareFailedStep ==
    /\ last' \in {"prepareSyncFailed", "onPrepareFailed"}
    /\ (calls' # calls \/ queue' # queue)

\* C12: a prepare that fails leaves the state as before the call: the data
\* source and the decode source, the bitrate and the duration, the cache
\* status and fill are unchanged and no notification is queued.
C12_FailedPrepareChangesNothing ==
    [][ PrepareFailedStep
          => /\ mDataSource' = mDataSource
             /\ mAudioSource' = mAudioSource
             /\ mBitrate' = mBitrate
             /\ mDurationUsec' = mDurationUsec
             /\ mCacheStatus' = mCacheStatus
             /\ mCacheFill' = mCacheFill
             /\ mLastNotifiedCacheFill' = mLastNotifiedCacheFill
             /\ ~NotifPosted(EVENT_PREFETCHSTATUSCHANGE)
             /\ ~NotifPosted(EVENT_PREFETCHFILLLEVELUPDATE)
      ]_vars

\* The step is a setDataSource that fails.
SetDataSourceFailedStep == last' = "setDataSourceFailed" /\ calls' # calls

\* C13: a setDataSource that fails leaves the locator as it was: the variant
\* is the one before the call and, when a variant was active, so are its
\* contents.
C13_FailedSetDataSourceKeepsLocator ==
    [][ SetDataSourceFailedStep
          => /\ mDataLocatorType' = mDataLocatorType
             /\ (mDataLocatorType # kDataLocatorNone => mDataLocator' = mDataLocator)
      ]_vars

(***************************************************************************)
(* Pacing (C14).                                                           *)
(***************************************************************************)
\* C14: the decode step that stores a frame assigns mTimeDelta only when it
\* is unknown (the sentinel -1), to now - timestamp, and leaves it unchanged
\* otherwise; so the renders of two frames stored without a re-anchoring
\* event between them are scheduled for times (timestamp + mTimeDelta) that
\* differ by the difference of the timestamps.
C14_TimeDeltaAssignedOnlyWhenUnknown ==
    [][ (last' = "decodeOk" /\ looperPc = "decodeStore")
          => mTimeDelta' = IF mTimeDelta = -1 THEN now - mDecodeBuffer ELSE mTimeDelta
      ]_vars

(***************************************************************************)
(* Seeking and the anchor of the clock (C15).                              *)
(***************************************************************************)
\* C15: between two handlers, if Seeking is set then mTimeDelta is unknown.
C15_SeekingImpliesTimeDeltaUnknown ==
    (looperPc = "idle" /\ kFlagSeeking \in mFlags) => mTimeDelta = -1

(***************************************************************************)
(* onDecode without Playing, Buffering or Preparing (C16).                 *)
(***************************************************************************)
\* The looper runs onDecode to its return or to the return of read().
DecodeStep ==
    /\ Dispatch("Decode")
    /\ queue' # queue
    /\ last' \in {"decodeRebuffer", "decodeIdle", "decodeRead", "decodeEos", "decodeError"}

\* C16: onDecode run with none of Playing, Buffering, Preparing set changes no
\* flag, reads no frame, leaves the sink and the pending buffer alone and
\* posts no message.
C16_DecodeWithoutFlagsIsNoOp ==
    [][ (DecodeStep /\ mFlags \cap {kFlagPlaying, kFlagBuffering, kFlagPreparing} = {})
        => /\ mFlags' = mFlags
           /\ srcNext' = srcNext
           /\ sink' = sink
           /\ mDecodeBuffer' = mDecodeBuffer
           /\ timers' = timers
           /\ queue' = Tail(queue) ]_vars

(***************************************************************************)
(* onCheckCache (C17).                                                     *)
(***************************************************************************)
\* Number of messages for handler w in q.
MsgCount(q, w) == Cardinality({i \in DOMAIN q : q[i].what = w})

\* The looper runs onCheckCache on the cached source, to its return.
CheckCacheStep ==
    /\ Dispatch("CheckCache")
    /\ mDataSource = "cached"
    /\ queue' # queue
    /\ last' \in {"checkCacheExit", "checkCachePoll"}

\* The exit rule, on what the estimate was: the end of the stream as the
\* source reports it, and the status getCacheRemaining stored.
ExitRule ==
    \/ srcEos
    \/ mCacheStatus' = kStatusHigh
    \/ (kFlagPreparing \in mFlags /\ mCacheStatus' >= kStatusEnough)

\* C17: onCheckCache leaves buffering exactly when the end of the stream is
\* reached, or the status is High, or Preparing is set and the status is at
\* least Enough. Leaving, it starts the sink iff Playing, clears Buffering and
\* Preparing, resets mTimeDelta, posts one Decode iff Playing and no
\* CheckCache; otherwise it changes no flag and posts one delayed CheckCache.
C17_CheckCacheExitRule ==
    [][ CheckCacheStep =>
          IF ExitRule
          THEN /\ last' = "checkCacheExit"
               /\ sink' = (IF kFlagPlaying \in mFlags THEN "start" ELSE sink)
               /\ mFlags' = mFlags \ {kFlagBuffering, kFlagPreparing}
               /\ mTimeDelta' = -1
               /\ MsgCount(queue', "Decode") = MsgCount(Tail(queue), "Decode")
                                               + (IF kFlagPlaying \in mFlags THEN 1 ELSE 0)
               /\ MsgCount(queue', "CheckCache") = MsgCount(Tail(queue), "CheckCache")
               /\ timers' = timers
          ELSE /\ last' = "checkCachePoll"
               /\ mFlags' = mFlags
               /\ sink' = sink
               /\ mTimeDelta' = mTimeDelta
               /\ MsgCount(queue', "Decode") = MsgCount(Tail(queue), "Decode")
               /\ MsgCount(queue', "CheckCache") = MsgCount(Tail(queue), "CheckCache")
               /\ timers' = [timers EXCEPT !.CheckCache = @ + 1] ]_vars

\* A check that left buffering on Enough while Preparing, Playing set: the
\* sink was started and the Decode posted.
C17_Witness ==
    /\ last = "checkCacheExit"
    /\ mCacheStatus = kStatusEnough
    /\ ~srcEos
    /\ kFlagPlaying \in mFlags
    /\ sink = "start"
    /\ MsgCount(queue, "Decode") > 0

(***************************************************************************)
(* The poll of the cache (C18).                                            *)
(***************************************************************************)
\* CheckCache messages posted and not yet handled, delayed or due.
PendingCheckCache == timers.CheckCache + MsgCount(queue, "CheckCache")

\* C18: at most one CheckCache message is pending at any time.
C18_AtMostOneCheckCachePending == PendingCheckCache <= 1

(***************************************************************************)
(* Re-buffering (C19).                                                     *)
(***************************************************************************)
\* The source has fetched up to the end of the stream and Playing is set.
SourceFullAndPlaying == srcEos /\ kFlagPlaying \in mFlags

\* onCheckCache has just left buffering: Buffering is clear, the sink is
\* started and a Decode message is queued.
PlaybackResumed ==
    /\ last = "checkCacheExit"
    /\ kFlagBuffering \notin mFlags
    /\ sink = "start"
    /\ MsgCount(queue, "Decode") >= 1

EndOfStreamJustNotified ==
    /\ last = "decodeEos"
    /\ NotifCount(Tail(queue), EVENT_ENDOFSTREAM) > 0

\* C20: a decode step whose read() hits the end of the stream posts one
\* ENDOFSTREAM notification if Playing is set and this end of the stream was
\* not notified yet, and none otherwise; it posts no Render and no Decode, and
\* leaves the flags (Seeking among them), the seek target and the position
\* alone.
C20_EndOfStreamNotifiedOnce ==
    [][ (DecodeStep /\ last' = "decodeEos")
        => /\ NotifCount(queue', EVENT_ENDOFSTREAM)
                = NotifCount(Tail(queue), EVENT_ENDOFSTREAM)
                  + (IF kFlagPlaying \in mFlags /\ ~EndOfStreamJustNotified THEN 1 ELSE 0)
           /\ timers' = timers
           /\ MsgCount(queue', "Decode") = MsgCount(Tail(queue), "Decode")
           /\ MsgCount(queue', "Render") = MsgCount(Tail(queue), "Render")
           /\ mFlags' = mFlags
           /\ mSeekTimeMsec' = mSeekTimeMsec
           /\ mLastDecodedPositionUs' = mLastDecodedPositionUs ]_vars

(***************************************************************************)
(* Buffering and the sink (C21).                                           *)
(***************************************************************************)
\* The looper runs onRender and writes the frame held to the sink.
RenderWriteStep ==
    /\ Dispatch("Render")
    /\ queue' # queue
    /\ last' = "renderWrite"

\* The looper runs onCheckCache and starts the sink (lines 523-525).
CheckCacheStartStep ==
    /\ CheckCacheStep
    /\ last' = "checkCacheExit"
    /\ kFlagPlaying \in mFlags

\* C21: no handler writes a frame to the sink while Buffering is set, and a
\* handler that starts the sink leaves Buffering clear.
C21_BufferingGatesRendering ==
    [][ /\ RenderWriteStep => kFlagBuffering \notin mFlags
        /\ CheckCacheStartStep => kFlagBuffering \notin mFlags' ]_vars

====
